---- MODULE Spec2Model ----
(***************************************************************************)
(* A model of the iCloud -> Immich drain pipeline (src/src/drain_icloud.py *)
(* with utils/tracker.py, utils/immich_client.py, utils/exif_utils.py):    *)
(* planning, batching, export, upload, ledger update and staging cleanup,  *)
(* over repeated runs that may be terminated at any point.                 *)
(*                                                                         *)
(* Sizes are counted in MiB (1 = 1024*1024 bytes): a 2 GB original is      *)
(* 2048, the 5 MB photo estimate is 5, the 100 MB video estimate is 100.   *)
(* File names are sequences of one-character strings, so that the          *)
(* extension is computed, not assumed.                                     *)
(***************************************************************************)
EXTENDS Integers, Sequences, FiniteSets, TLC

VARIABLES
    photos,         \* the catalog, photosdb.photos(): a sequence of PhotoInfo
    local,          \* uuid -> BOOLEAN: photo.path and Path(photo.path).exists()
    ledger,         \* committed rows of the imported_assets table (on disk)
    txn,            \* rows written on the connection and not yet committed
    staging,        \* the files of the staging directory (on disk)
    pc,             \* where main() is: "idle" when no run is in progress
    args,           \* the options of the current run
    imported_uuids, \* main: tracker.get_imported_uuids()
    to_import,      \* main: the remaining worklist
    batch_num,      \* main: the batch counter
    batch,          \* main: the batch being processed
    i,              \* process_batch: the 1-based index of the current item
    stats,          \* process_batch: the batch's counters
    total_stats,    \* main: the run's counters
    exported_path,  \* process_batch: what export_photo returned
    result,         \* process_batch: the UploadResult
    exit_code,      \* the exit status of the last run that ended
    ledger0,        \* history: the uuids the ledger held when the run started
    worklist,       \* history: the worklist as planning returned it
    committed,      \* history: the rows whose mark_imported call has returned
    startup,        \* what the run's startup met: the ping's answer, the catalog
    exported_ids,   \* history: the uuids export_photo was called for in this run
    uploaded_ids,   \* history: the uuids upload_asset was called for in this run
    pause_due,      \* history: a slow-path export succeeded, no pause since
    response,       \* upload_asset: what the destination answered to the request
    writes,         \* history: uuid -> the number of mark_imported calls that returned
    unlink_failed,  \* history: the files the sweep just done could not unlink
    upload_failures \* history: the uploads of this run that returned a failure

vars == <<photos, local, ledger, txn, staging, pc, args, imported_uuids,
          to_import, batch_num, batch, i, stats, total_stats, exported_path,
          result, exit_code, ledger0, worklist, committed,
          startup,
          exported_ids,
          uploaded_ids,
          pause_due,
          response,
          writes,
          unlink_failed,
          upload_failures>>

(***************************************************************************)
(* Bounds of the model.                                                    *)
(***************************************************************************)
NumPhotos == 2
PlanPhotos == 3

UUIDs == 1..NumPhotos
PlanUUIDs == 1..PlanPhotos

None == "None"

(***************************************************************************)
(* utils/exif_utils.py: the classifier.                                    *)
(***************************************************************************)
PHOTO_EXTENSIONS ==
    { <<".", "j", "p", "g">>, <<".", "j", "p", "e", "g">>, <<".", "p", "n", "g">>,
      <<".", "g", "i", "f">>, <<".", "w", "e", "b", "p">>, <<".", "h", "e", "i", "c">>,
      <<".", "h", "e", "i", "f">>, <<".", "t", "i", "f", "f">>, <<".", "t", "i", "f">>,
      <<".", "b", "m", "p">>, <<".", "r", "a", "w">>, <<".", "d", "n", "g">>,
      <<".", "c", "r", "2">>, <<".", "n", "e", "f">>, <<".", "a", "r", "w">> }

VIDEO_EXTENSIONS ==
    { <<".", "m", "p", "4">>, <<".", "m", "o", "v">>, <<".", "a", "v", "i">>,
      <<".", "m", "k", "v">>, <<".", "w", "e", "b", "m">>, <<".", "m", "4", "v">>,
      <<".", "3", "g", "p">> }

SKIP_EXTENSIONS ==
    { <<".", "t", "h", "m">>, <<".", "s", "c", "r">>, <<".", "l", "r", "f">> }

\* str.lower() on one character, for the letters the model's file names use.
lower_char(c) ==
    CASE c = "A" -> "a" [] c = "C" -> "c" [] c = "F" -> "f" [] c = "G" -> "g"
      [] c = "H" -> "h" [] c = "I" -> "i" [] c = "J" -> "j" [] c = "L" -> "l"
      [] c = "M" -> "m" [] c = "O" -> "o" [] c = "P" -> "p" [] c = "R" -> "r"
      [] c = "S" -> "s" [] c = "T" -> "t" [] c = "V" -> "v"
      [] OTHER -> c

lower(s) == [k \in 1..Len(s) |-> lower_char(s[k])]

\* The extension without lowering, a slip _get_extension could make.
get_extension_case_sensitive(filename) ==
    IF \E k \in 1..Len(filename) : filename[k] = "."
    THEN LET last == CHOOSE k \in 1..Len(filename) :
                        /\ filename[k] = "."
                        /\ \A j \in (k+1)..Len(filename) : filename[j] # "."
         IN  <<".">> \o SubSeq(filename, last + 1, Len(filename))
    ELSE <<>>

\* _get_extension: "." + filename.rsplit(".", 1)[-1].lower(), or "" without a dot.
get_extension(filename) ==
    IF \E k \in 1..Len(filename) : filename[k] = "."
    THEN LET last == CHOOSE k \in 1..Len(filename) :
                        /\ filename[k] = "."
                        /\ \A j \in (k+1)..Len(filename) : filename[j] # "."
         IN  <<".">> \o lower(SubSeq(filename, last + 1, Len(filename)))
    ELSE <<>>

get_media_type(filename) ==
    LET ext == get_extension(filename)
    IN  IF ext \in SKIP_EXTENSIONS THEN None
        ELSE IF ext \in PHOTO_EXTENSIONS THEN "photo"
        ELSE IF ext \in VIDEO_EXTENSIONS THEN "video"
        ELSE None

should_skip_file(filename) == get_extension(filename) \in SKIP_EXTENSIONS

(***************************************************************************)
(* The catalog's items.  original_filename <<>> stands for None,           *)
(* original_filesize 0 for an absent size; st_size is the size of the file *)
(* an export of the item produces.                                         *)
(***************************************************************************)
NoName == <<>>

F_jpg == <<"a", ".", "j", "p", "g">>
F_MOV == <<"b", ".", "M", "O", "V">>
F_THM == <<"I", "M", "G", ".", "T", "H", "M">>
F_lrf == <<"c", ".", "l", "r", "f">>
F_Scr == <<"d", ".", "S", "c", "r">>
F_thm_jpg == <<"e", ".", "t", "h", "m", ".", "j", "p", "g">>
F_noext == <<"t", "h", "m">>

\* The junk name of the u-th item, when it is junk: the three junk
\* extensions in upper, mixed and lower case.
junk_name(u) ==
    IF u % 3 = 1 THEN F_THM ELSE IF u % 3 = 2 THEN F_Scr ELSE F_lrf

PhotoInfo(u, filename, filesize, isphoto, st_size, date, date_modified) ==
    [uuid |-> u, original_filename |-> filename, original_filesize |-> filesize,
     isphoto |-> isphoto, st_size |-> st_size, date |-> date,
     date_modified |-> date_modified]

(***************************************************************************)
(* drain_icloud.py: planning and batching.                                 *)
(***************************************************************************)
PHOTO_ESTIMATE == 5
VIDEO_ESTIMATE == 100

is_local(photo, loc) == loc[photo.uuid]

\* Planning that forgets the ledger filter.
get_photos_to_import_no_ledger(all_photos, loc, imported, local_only) ==
    LET keep(p) == ~(p.original_filename # NoName /\ should_skip_file(p.original_filename))
        is_loc(p) == keep(p) /\ is_local(p, loc)
        is_cloud(p) == keep(p) /\ ~is_local(p, loc) /\ ~local_only
    IN  SelectSeq(all_photos, is_loc) \o SelectSeq(all_photos, is_cloud)

\* Planning that keeps the catalog's order instead of local first.
get_photos_to_import_unordered(all_photos, loc, imported, local_only) ==
    LET keep(p) ==
            /\ p.uuid \notin imported
            /\ ~(p.original_filename # NoName /\ should_skip_file(p.original_filename))
            /\ (is_local(p, loc) \/ ~local_only)
    IN  SelectSeq(all_photos, keep)

\* Planning that appends the remote-only candidates whatever local_only says.
get_photos_to_import_ignores_local_only(all_photos, loc, imported, local_only) ==
    LET keep(p) ==
            /\ p.uuid \notin imported
            /\ ~(p.original_filename # NoName /\ should_skip_file(p.original_filename))
        is_loc(p) == keep(p) /\ is_local(p, loc)
        is_cloud(p) == keep(p) /\ ~is_local(p, loc)
    IN  SelectSeq(all_photos, is_loc) \o SelectSeq(all_photos, is_cloud)

get_photos_to_import(all_photos, loc, imported, local_only) ==
    LET keep(p) ==
            /\ p.uuid \notin imported
            /\ ~(p.original_filename # NoName /\ should_skip_file(p.original_filename))
        is_loc(p) == keep(p) /\ is_local(p, loc)
        is_cloud(p) == keep(p) /\ ~is_local(p, loc) /\ ~local_only
    IN  SelectSeq(all_photos, is_loc) \o SelectSeq(all_photos, is_cloud)

\* A file_size that takes an unknown size for no bytes at all.
batch_file_size_unknown_is_zero(photo) == photo.original_filesize

\* build_batch's file_size: original_filesize or 0, else the estimate by kind.
batch_file_size(photo) ==
    IF photo.original_filesize = 0
    THEN (IF photo.isphoto THEN PHOTO_ESTIMATE ELSE VIDEO_ESTIMATE)
    ELSE photo.original_filesize

RECURSIVE build_batch_from(_, _, _, _, _, _)
build_batch_from(list, k, acc, batch_size, max_bytes, max_items) ==
    IF k > Len(list) THEN acc
    ELSE IF max_items # 0 /\ Len(acc) >= max_items THEN acc
    ELSE LET file_size == batch_file_size(list[k])
         IN  IF batch_size + file_size > max_bytes /\ acc # <<>> THEN acc
             ELSE build_batch_from(list, k + 1, Append(acc, list[k]),
                                   batch_size + file_size, max_bytes, max_items)

\* build_batch that compares the budget with the size accumulated so far,
\* leaving out the item about to be added.
RECURSIVE build_batch_from_late(_, _, _, _, _, _)
build_batch_from_late(list, k, acc, batch_size, max_bytes, max_items) ==
    IF k > Len(list) THEN acc
    ELSE IF max_items # 0 /\ Len(acc) >= max_items THEN acc
    ELSE LET file_size == batch_file_size(list[k])
         IN  IF batch_size > max_bytes /\ acc # <<>> THEN acc
             ELSE build_batch_from_late(list, k + 1, Append(acc, list[k]),
                                        batch_size + file_size, max_bytes, max_items)

\* build_batch that passes over an item that does not fit and tries the next.
RECURSIVE build_batch_from_skipping(_, _, _, _, _, _)
build_batch_from_skipping(list, k, acc, batch_size, max_bytes, max_items) ==
    IF k > Len(list) THEN acc
    ELSE IF max_items # 0 /\ Len(acc) >= max_items THEN acc
    ELSE LET file_size == batch_file_size(list[k])
         IN  IF batch_size + file_size > max_bytes /\ acc # <<>>
             THEN build_batch_from_skipping(list, k + 1, acc, batch_size,
                                            max_bytes, max_items)
             ELSE build_batch_from_skipping(list, k + 1, Append(acc, list[k]),
                                            batch_size + file_size, max_bytes,
                                            max_items)

build_batch_skipping(list, max_bytes, max_items) ==
    build_batch_from_skipping(list, 1, <<>>, 0, max_bytes, max_items)

build_batch_budget_late(list, max_bytes, max_items) ==
    build_batch_from_late(list, 1, <<>>, 0, max_bytes, max_items)

\* build_batch that holds every item to the budget, the first one too.
RECURSIVE build_batch_from_strict(_, _, _, _, _, _)
build_batch_from_strict(list, k, acc, batch_size, max_bytes, max_items) ==
    IF k > Len(list) THEN acc
    ELSE IF max_items # 0 /\ Len(acc) >= max_items THEN acc
    ELSE LET file_size == batch_file_size(list[k])
         IN  IF batch_size + file_size > max_bytes THEN acc
             ELSE build_batch_from_strict(list, k + 1, Append(acc, list[k]),
                                          batch_size + file_size, max_bytes,
                                          max_items)

build_batch_strict(list, max_bytes, max_items) ==
    build_batch_from_strict(list, 1, <<>>, 0, max_bytes, max_items)

build_batch(list, max_bytes, max_items) ==
    build_batch_from(list, 1, <<>>, 0, max_bytes, max_items)

uuids_of(list) == {list[k].uuid : k \in 1..Len(list)}

\* The worklist with the batch's items left in it.
remove_batch_none(list, b) == list

\* main, lines 443-444: the worklist without the batch's items.
remove_batch(list, b) ==
    LET keep(p) == p.uuid \notin uuids_of(b)
    IN  SelectSeq(list, keep)

\* An insert that leaves the old row of the uuid in the table.
insert_keep_old(rows, row) == rows \cup {row}

(***************************************************************************)
(* utils/tracker.py: the ledger.  A connection sees the committed rows     *)
(* with its own uncommitted rows laid over them.                           *)
(***************************************************************************)
insert_or_replace(rows, row) ==
    {r \in rows : r.icloud_uuid # row.icloud_uuid} \cup {row}

RECURSIVE upsert_all(_, _)
upsert_all(rows, more) ==
    IF more = {} THEN rows
    ELSE LET r == CHOOSE x \in more : TRUE
         IN  upsert_all(insert_or_replace(rows, r), more \ {r})

db_view(rows, pending) == upsert_all(rows, pending)

\* The lookup that finds no row.
get_imported_uuids_none(rows, pending) == {}

get_imported_uuids(rows, pending) ==
    {r.icloud_uuid : r \in db_view(rows, pending)}

\* mark_imported without conn.commit(): the row stays in the open transaction.
mark_imported_no_commit(rows, pending, icloud_uuid, immich_id, filename, file_size, media_type) ==
    [ledger |-> rows,
     txn    |-> insert_or_replace(db_view(rows, pending),
                    [icloud_uuid |-> icloud_uuid, immich_id |-> immich_id,
                     filename |-> filename, file_size |-> file_size,
                     media_type |-> media_type]) \ rows]

\* mark_imported: INSERT OR REPLACE, then commit.
mark_imported(rows, pending, icloud_uuid, immich_id, filename, file_size, media_type) ==
    [ledger |-> insert_or_replace(db_view(rows, pending),
                    [icloud_uuid |-> icloud_uuid, immich_id |-> immich_id,
                     filename |-> filename, file_size |-> file_size,
                     media_type |-> media_type]),
     txn    |-> {}]

(***************************************************************************)
(* utils/immich_client.py: upload_asset, as a function of what the         *)
(* destination answers.                                                    *)
(***************************************************************************)
\* What a request can meet: a response with a status and a body, which is a
\* JSON object with or without a "duplicate" member, or not JSON, or JSON
\* that is not an object; a transport error; an error opening the file.
Response(kind, status, body, duplicate) ==
    [kind |-> kind, status |-> status, body |-> body, duplicate |-> duplicate]

NoResponse == Response("none", 0, "object", "absent")

\* The answers the pipeline is run against.
Responses ==
    { Response("http", 201, "object", "false"),
      Response("http", 201, "object", "true"),
      Response("http", 201, "not_json", "absent"),
      Response("http", 200, "object", "absent"),
      Response("http", 500, "object", "absent"),
      Response("request_error", 0, "object", "absent") }

UploadResult(success, asset_id, duplicate, error) ==
    [success |-> success, asset_id |-> asset_id, duplicate |-> duplicate,
     error |-> error]

NoResult == UploadResult(FALSE, None, FALSE, None)

\* upload_asset that takes every 2xx status for a success.
upload_asset_any_2xx(file_exists, resp) ==
    IF ~file_exists THEN UploadResult(FALSE, None, FALSE, "File not found")
    ELSE IF resp.kind = "request_error"
         THEN UploadResult(FALSE, None, FALSE, "Request error")
    ELSE IF resp.kind = "os_error"
         THEN UploadResult(FALSE, None, FALSE, "Unexpected error")
    ELSE IF resp.status \in 200..299 /\ resp.body = "not_json"
         THEN UploadResult(FALSE, None, FALSE, "Request error")
    ELSE IF resp.status \in 200..299 /\ resp.body = "not_object"
         THEN UploadResult(FALSE, None, FALSE, "Unexpected error")
    ELSE IF resp.status \in 200..299
         THEN UploadResult(TRUE, "asset-id", resp.duplicate = "true", None)
    ELSE UploadResult(FALSE, None, FALSE, "Upload failed")

\* lines 69-119.  response.json() raises on a body that is not JSON (a
\* RequestException in requests) and result.get raises on JSON that is not an
\* object; both are caught and reported as failures.
upload_asset(file_exists, resp) ==
    IF ~file_exists THEN UploadResult(FALSE, None, FALSE, "File not found")
    ELSE IF resp.kind = "request_error"
         THEN UploadResult(FALSE, None, FALSE, "Request error")
    ELSE IF resp.kind = "os_error"
         THEN UploadResult(FALSE, None, FALSE, "Unexpected error")
    ELSE IF resp.status \in {200, 201} /\ resp.body = "not_json"
         THEN UploadResult(FALSE, None, FALSE, "Request error")
    ELSE IF resp.status \in {200, 201} /\ resp.body = "not_object"
         THEN UploadResult(FALSE, None, FALSE, "Unexpected error")
    ELSE IF resp.status = 201
         THEN UploadResult(TRUE, "asset-id", resp.duplicate = "true", None)
    ELSE IF resp.status = 200
         THEN UploadResult(TRUE, "asset-id", TRUE, None)
    ELSE UploadResult(FALSE, None, FALSE, "Upload failed")

(***************************************************************************)
(* drain_icloud.py: export_photo.  A staging file is known by the item     *)
(* whose content it holds and by its size.  The operator gives every       *)
(* outcome the call can have: the path it returns (None for a failure) and *)
(* the staging directory it leaves.                                        *)
(***************************************************************************)
StagedFile(photo) == [src |-> photo.uuid, st_size |-> photo.st_size]

\* export_photo's None, as a value of the files' kind.
NoPath == [src |-> 0, st_size |-> 0]


export_photo(photo, stg, loc) ==
    IF is_local(photo, loc)
    THEN \* photo.export(...): the first exported file, or the final "return None"
         { [path |-> StagedFile(photo), staging |-> stg \cup {StagedFile(photo)},
            outcome |-> "copied"] }
         \cup { [path |-> NoPath, staging |-> stg, outcome |-> o] :
                    o \in {"nothing_exported", "exception"} }
    ELSE \* osxphotos export --uuid ... --download-missing, 300 s timeout
         { [path |-> f, staging |-> stg \cup {StagedFile(photo)},
            outcome |-> "exit0_file"] : f \in stg \cup {StagedFile(photo)} }
         \cup { [path |-> f, staging |-> stg, outcome |-> "exit0_nofile"] :
                    f \in (IF stg = {} THEN {NoPath} ELSE stg) }
         \* a failed or killed download may leave what it had written
         \cup { [path |-> NoPath, staging |-> left, outcome |-> o] :
                    o \in {"nonzero_exit", "timeout"},
                    left \in {stg, stg \cup {StagedFile(photo)}} }

(***************************************************************************)
(* drain_icloud.py: process_batch's counters.                              *)
(***************************************************************************)
ZeroStats == [exported |-> 0, uploaded |-> 0, duplicates |-> 0, failed |-> 0,
              skipped |-> 0]

add_stats(a, b) ==
    [exported |-> a.exported + b.exported, uploaded |-> a.uploaded + b.uploaded,
     duplicates |-> a.duplicates + b.duplicates, failed |-> a.failed + b.failed,
     skipped |-> a.skipped + b.skipped]

\* lines 210-211
item_filename(photo) ==
    IF photo.original_filename # NoName THEN photo.original_filename
    ELSE <<"u", "n", "k", "n", "o", "w", "n", "_", ToString(photo.uuid)>>

item_media_type(photo) ==
    IF get_media_type(item_filename(photo)) # None
    THEN get_media_type(item_filename(photo))
    ELSE IF photo.isphoto THEN "photo" ELSE "video"

\* The counters with every export_photo call tallied as an export.
count_export_every_call(st, path) ==
    IF path = NoPath THEN [st EXCEPT !.failed = @ + 1, !.exported = @ + 1]
    ELSE [st EXCEPT !.exported = @ + 1]

\* lines 228-232: the counters after export_photo returned `path`.
count_export(st, path) ==
    IF path = NoPath THEN [st EXCEPT !.failed = @ + 1]
    ELSE [st EXCEPT !.exported = @ + 1]

\* The counters with a duplicate tallied as a fresh upload.
count_upload_duplicate_as_uploaded(st, res) ==
    IF res.success THEN [st EXCEPT !.uploaded = @ + 1]
    ELSE [st EXCEPT !.failed = @ + 1]

\* lines 268-286: the counters after upload_asset returned `res`.
count_upload(st, res) ==
    IF res.success
    THEN IF res.duplicate THEN [st EXCEPT !.duplicates = @ + 1]
         ELSE [st EXCEPT !.uploaded = @ + 1]
    ELSE [st EXCEPT !.failed = @ + 1]

(***************************************************************************)
(* The inputs: catalogs, availability and command lines.                   *)
(***************************************************************************)
\* The kinds of item a catalog of the pipeline holds: a local photo, a
\* cloud-only video of unknown size, a local junk thumbnail, a cloud-only item
\* without a name or dates.
Kinds(u) ==
    { [original_filename |-> F_jpg, original_filesize |-> 4, isphoto |-> TRUE,
       st_size |-> 4, date |-> TRUE, date_modified |-> TRUE, local |-> TRUE],
      [original_filename |-> F_MOV, original_filesize |-> 0, isphoto |-> FALSE,
       st_size |-> 90, date |-> TRUE, date_modified |-> FALSE, local |-> FALSE],
      [original_filename |-> junk_name(u), original_filesize |-> 1, isphoto |-> TRUE,
       st_size |-> 1, date |-> TRUE, date_modified |-> TRUE, local |-> TRUE],
      [original_filename |-> NoName, original_filesize |-> 2048, isphoto |-> TRUE,
       st_size |-> 2048, date |-> FALSE, date_modified |-> FALSE, local |-> FALSE] }

make_photo(u, k) ==
    PhotoInfo(u, k.original_filename, k.original_filesize, k.isphoto, k.st_size,
              k.date, k.date_modified)

\* The command lines of a run: --dry-run, --local-only, --batch-size (MiB),
\* --max-items, --max-batches.
BatchArgs ==
    { [max_bytes |-> 5120, max_items |-> 0, max_batches |-> 0],
      [max_bytes |-> 5120, max_items |-> 1, max_batches |-> 0],
      [max_bytes |-> 5120, max_items |-> 1, max_batches |-> 1],
      [max_bytes |-> 8,    max_items |-> 0, max_batches |-> 0] }

ArgSets ==
    { [dry_run |-> d, local_only |-> l, max_bytes |-> b.max_bytes,
       max_items |-> b.max_items, max_batches |-> b.max_batches] :
          d \in BOOLEAN, l \in BOOLEAN, b \in BatchArgs }

NoArgs == [dry_run |-> FALSE, local_only |-> FALSE, max_bytes |-> 0,
           max_items |-> 0, max_batches |-> 0]

(***************************************************************************)
(* The state before the first run: an empty ledger and an empty staging    *)
(* directory (config.ensure_dirs, ImportTracker._ensure_schema).           *)
(***************************************************************************)
Idle ==
    /\ pc = "idle"
    /\ args = NoArgs
    /\ imported_uuids = {}
    /\ to_import = <<>>
    /\ batch_num = 0
    /\ batch = <<>>
    /\ i = 0
    /\ stats = ZeroStats
    /\ total_stats = ZeroStats
    /\ exported_path = NoPath
    /\ result = NoResult
    /\ ledger0 = {}
    /\ worklist = <<>>
    /\ startup = "none"
    /\ exported_ids = {}
    /\ uploaded_ids = {}
    /\ pause_due = FALSE
    /\ response = NoResponse
    /\ unlink_failed = {}
    /\ upload_failures = 0

Init ==
    /\ \E kinds \in {f \in [UUIDs -> UNION {Kinds(u) : u \in UUIDs}] :
                          \A u \in UUIDs : f[u] \in Kinds(u)} :
          /\ photos = [u \in UUIDs |-> make_photo(u, kinds[u])]
          /\ local = [u \in UUIDs |-> kinds[u].local]
    /\ ledger = {}
    /\ txn = {}
    /\ staging = {}
    /\ exit_code = "none"
    /\ committed = {}
    /\ Idle
    /\ writes = [u \in UUIDs |-> 0]

\* The process is gone: what it held in memory is forgotten.
Forget ==
    /\ pc' = "idle"
    /\ args' = NoArgs
    /\ imported_uuids' = {}
    /\ to_import' = <<>>
    /\ batch_num' = 0
    /\ batch' = <<>>
    /\ i' = 0
    /\ stats' = ZeroStats
    /\ total_stats' = ZeroStats
    /\ exported_path' = NoPath
    /\ result' = NoResult
    /\ ledger0' = {}
    /\ worklist' = <<>>
    /\ txn' = {}
    /\ startup' = "none"
    /\ exported_ids' = {}
    /\ uploaded_ids' = {}
    /\ pause_due' = FALSE
    /\ response' = NoResponse
    /\ unlink_failed' = {}
    /\ upload_failures' = 0

(***************************************************************************)
(* main, lines 348-423: options, the ping, the catalog, the ledger's       *)
(* uuids, planning.                                                        *)
(***************************************************************************)
\* What the destination and the catalog answer when a run starts.
StartupOutcomes == {"ping_status_503", "ping_request_error", "catalog_raised", "ok"}

\* A ping that reports the destination reachable whatever it answered.
ping_always_true(s) == TRUE

\* immich_client.py, ImmichClient.ping: True for status 200 only.
ping(s) == s \notin {"ping_status_503", "ping_request_error"}

\* main, lines 393-400: osxphotos.PhotosDB(...) raised, or not.
open_library(s) == s # "catalog_raised"

Main_Start ==
    /\ pc = "idle"
    /\ \E a \in ArgSets, s \in StartupOutcomes :
          /\ startup' = s
          /\ IF ~ping(s) \/ ~open_library(s)
             THEN /\ exit_code' = "1"
                  /\ UNCHANGED <<photos, local, ledger, txn, staging, pc, args,
                                 imported_uuids, to_import, batch_num, batch, i,
                                 stats, total_stats, exported_path, result,
                                 ledger0, worklist, committed, exported_ids,
                                 uploaded_ids, pause_due, response, writes,
                                 unlink_failed, upload_failures>>
             ELSE LET imported == get_imported_uuids(ledger, txn)
                      plan == get_photos_to_import(photos, local, imported,
                                                   a.local_only)
                  IN  IF plan = <<>>
                      THEN /\ exit_code' = "0"
                           /\ UNCHANGED <<photos, local, ledger, txn, staging, pc,
                                          args, imported_uuids, to_import,
                                          batch_num, batch, i, stats, total_stats,
                                          exported_path, result, ledger0,
                                          worklist, committed, exported_ids,
                                          uploaded_ids, pause_due, response,
                                          writes, unlink_failed,
                                          upload_failures>>
                      ELSE /\ pc' = "loop"
                           /\ args' = a
                           /\ imported_uuids' = imported
                           /\ to_import' = plan
                           /\ worklist' = plan
                           /\ ledger0' = {r.icloud_uuid : r \in ledger}
                           /\ exit_code' = "none"
                           /\ UNCHANGED <<photos, local, ledger, txn, staging,
                                          batch_num, batch, i, stats, total_stats,
                                          exported_path, result, committed,
                                          exported_ids, uploaded_ids,
                                          pause_due, response, writes,
                                          unlink_failed, upload_failures>>

(***************************************************************************)
(* main, lines 429-449: the head of the batch loop.                        *)
(***************************************************************************)
\* A loop that knows no cap.
batch_limit_never(n, max_batches) == FALSE

\* main, line 433: args.max_batches and batch_num > args.max_batches
batch_limit_reached(n, max_batches) == max_batches # 0 /\ n > max_batches

BatchLoop ==
    /\ pc = "loop"
    /\ IF to_import = <<>>
       THEN /\ pc' = "summary"
            /\ UNCHANGED <<batch_num, batch, to_import, i, stats>>
       ELSE /\ batch_num' = batch_num + 1
            /\ IF batch_limit_reached(batch_num + 1, args.max_batches)
               THEN /\ pc' = "summary"
                    /\ UNCHANGED <<batch, to_import, i, stats>>
               ELSE LET b == build_batch(to_import, args.max_bytes, args.max_items)
                    IN  IF b = <<>>
                        THEN /\ pc' = "summary"
                             /\ UNCHANGED <<batch, to_import, i, stats>>
                        ELSE /\ batch' = b
                             /\ to_import' = remove_batch(to_import, b)
                             /\ i' = 1
                             /\ stats' = ZeroStats
                             /\ pc' = "item"
    /\ unlink_failed' = IF pc' = "item" THEN {} ELSE unlink_failed
    /\ UNCHANGED <<photos, local, ledger, txn, staging, args, imported_uuids,
                   total_stats, exported_path, result, exit_code, ledger0,
                   worklist, committed, startup, exported_ids, uploaded_ids,
                   pause_due, response, writes, upload_failures>>

\* A loop that gives up the rest of the batch.
NextItem_stop_batch ==
    /\ i' = i /\ pc' = "batch_end"
    /\ exported_path' = NoPath
    /\ result' = NoResult

\* process_batch's loop: on to the next item, or back to main.
NextItem ==
    /\ IF i < Len(batch)
       THEN i' = i + 1 /\ pc' = "item"
       ELSE i' = i /\ pc' = "batch_end"
    /\ exported_path' = NoPath
    /\ result' = NoResult

\* process_batch, lines 216-219.
DryRunItem ==
    /\ pc = "item"
    /\ args.dry_run
    /\ stats' = [stats EXCEPT !.skipped = @ + 1]
    /\ NextItem
    /\ UNCHANGED <<photos, local, ledger, txn, staging, args, imported_uuids,
                   to_import, batch_num, batch, total_stats, exit_code, ledger0,
                   worklist, committed, startup, exported_ids, uploaded_ids,
                   pause_due, response, writes, unlink_failed, upload_failures>>

\* process_batch, line 212.
is_cloud(photo, loc) == ~is_local(photo, loc)

\* process_batch, lines 225-227: whether time.sleep(30) is reached.
pauses(cloud, path, k, n) == cloud /\ path # NoPath /\ k < n

\* process_batch, lines 221-234: export_photo and what follows from its result.
ExportItem ==
    /\ pc = "item"
    /\ ~args.dry_run
    /\ exported_ids' = exported_ids \cup {batch[i].uuid}
    /\ \E r \in export_photo(batch[i], staging, local) :
          /\ staging' = r.staging
          /\ stats' = count_export(stats, r.path)
          /\ pause_due' = IF is_cloud(batch[i], local) /\ r.path # NoPath
                          THEN ~pauses(is_cloud(batch[i], local), r.path, i,
                                       Len(batch))
                          ELSE pause_due
          /\ IF r.path = NoPath
             THEN NextItem
             ELSE /\ exported_path' = r.path
                  /\ result' = NoResult
                  /\ i' = i
                  /\ pc' = "upload"
    /\ UNCHANGED <<photos, local, ledger, txn, args, imported_uuids, to_import,
                   batch_num, batch, total_stats, exit_code, ledger0, worklist,
                   committed, startup, uploaded_ids, response, writes,
                   unlink_failed, upload_failures>>

\* process_batch, lines 240-248: None stays None, a datetime becomes its
\* ISO 8601 text.
format_date(dt) ==
    CASE dt = None -> None
      [] dt = "photo.date" -> "iso(photo.date)"
      [] dt = "photo.date_modified" -> "iso(photo.date_modified)"

\* photo.date and photo.date_modified, None when the catalog has none.
photo_date(photo) == IF photo.date THEN "photo.date" ELSE None
photo_date_modified(photo) ==
    IF photo.date_modified THEN "photo.date_modified" ELSE None

\* lines 250 and 254-255
file_created_at(photo) ==
    IF format_date(photo_date(photo)) # None
    THEN format_date(photo_date(photo))
    ELSE "iso(file_stat.st_birthtime)"

\* The modified-at text without the file's own time to fall back on.
file_modified_at_no_fallback(photo) == format_date(photo_date_modified(photo))

\* lines 251 and 256-257
file_modified_at(photo) ==
    IF format_date(photo_date_modified(photo)) # None
    THEN format_date(photo_date_modified(photo))
    ELSE "iso(file_stat.st_mtime)"

\* lines 260-266: the arguments of immich.upload_asset.
upload_call(photo, path) ==
    [file_path |-> path, device_asset_id |-> photo.uuid,
     device_id |-> "dam-icloud-drain",
     file_created_at |-> file_created_at(photo),
     file_modified_at |-> file_modified_at(photo)]

\* UploadItem that goes on to the cleanup without the counters and the ledger.
UploadItem_skips_record ==
    /\ pc = "upload"
    /\ uploaded_ids' = uploaded_ids \cup {batch[i].uuid}
    /\ \E resp \in Responses :
          result' = upload_asset(
              upload_call(batch[i], exported_path).file_path \in staging, resp)
    /\ pc' = "cleanup"
    /\ UNCHANGED <<photos, local, ledger, txn, staging, args, imported_uuids,
                   to_import, batch_num, batch, i, stats, total_stats,
                   exported_path, exit_code, ledger0, worklist, committed,
                   startup, exported_ids, pause_due, response, writes,
                   unlink_failed, upload_failures>>

\* process_batch, lines 259-266: immich.upload_asset.
UploadItem ==
    /\ pc = "upload"
    /\ uploaded_ids' = uploaded_ids \cup {batch[i].uuid}
    /\ \E resp \in Responses :
          result' = upload_asset(
              upload_call(batch[i], exported_path).file_path \in staging, resp)
    /\ pc' = "uploaded"
    /\ UNCHANGED <<photos, local, ledger, txn, staging, args, imported_uuids,
                   to_import, batch_num, batch, i, stats, total_stats,
                   exported_path, exit_code, ledger0, worklist, committed,
                   startup, exported_ids, pause_due, response, writes,
                   unlink_failed, upload_failures>>

\* RecordItem that tracks the item whatever the upload's outcome.
RecordItem_unconditional ==
    /\ pc = "uploaded"
    /\ stats' = count_upload(stats, result)
    /\ LET db == mark_imported(ledger, txn, batch[i].uuid, result.asset_id,
                               item_filename(batch[i]), exported_path.st_size,
                               item_media_type(batch[i]))
       IN  /\ writes' = [writes EXCEPT ![batch[i].uuid] = @ + 1]
           /\ ledger' = db.ledger
           /\ txn' = db.txn
           /\ committed' = db.ledger
    /\ upload_failures' = IF result.success THEN upload_failures
                          ELSE upload_failures + 1
    /\ pc' = "cleanup"
    /\ UNCHANGED <<photos, local, staging, args, imported_uuids, to_import,
                   batch_num, batch, i, total_stats, exported_path, result,
                   exit_code, ledger0, worklist, startup, exported_ids,
                   uploaded_ids, pause_due, response, unlink_failed>>

\* RecordItem that tracks a fresh upload and leaves a duplicate untracked.
RecordItem_fresh_only ==
    /\ pc = "uploaded"
    /\ stats' = count_upload(stats, result)
    /\ IF result.success /\ ~result.duplicate
       THEN LET db == mark_imported(ledger, txn, batch[i].uuid, result.asset_id,
                                    item_filename(batch[i]), exported_path.st_size,
                                    item_media_type(batch[i]))
            IN  /\ writes' = [writes EXCEPT ![batch[i].uuid] = @ + 1]
                /\ ledger' = db.ledger
                /\ txn' = db.txn
                /\ committed' = db.ledger
       ELSE UNCHANGED <<ledger, txn, committed, writes>>
    /\ upload_failures' = IF result.success THEN upload_failures
                          ELSE upload_failures + 1
    /\ pc' = "cleanup"
    /\ UNCHANGED <<photos, local, staging, args, imported_uuids, to_import,
                   batch_num, batch, i, total_stats, exported_path, result,
                   exit_code, ledger0, worklist, startup, exported_ids,
                   uploaded_ids, pause_due, response, unlink_failed>>

\* process_batch, lines 268-286: the counters and tracker.mark_imported.
RecordItem ==
    /\ pc = "uploaded"
    /\ stats' = count_upload(stats, result)
    /\ IF result.success
       THEN LET db == mark_imported(ledger, txn, batch[i].uuid, result.asset_id,
                                    item_filename(batch[i]), exported_path.st_size,
                                    item_media_type(batch[i]))
            IN  /\ writes' = [writes EXCEPT ![batch[i].uuid] = @ + 1]
                /\ ledger' = db.ledger
                /\ txn' = db.txn
                /\ committed' = insert_or_replace(committed,
                       [icloud_uuid |-> batch[i].uuid, immich_id |-> result.asset_id,
                        filename |-> item_filename(batch[i]),
                        file_size |-> exported_path.st_size,
                        media_type |-> item_media_type(batch[i])])
       ELSE UNCHANGED <<ledger, txn, committed, writes>>
    /\ upload_failures' = IF result.success THEN upload_failures
                          ELSE upload_failures + 1
    /\ pc' = "cleanup"
    /\ UNCHANGED <<photos, local, staging, args, imported_uuids, to_import,
                   batch_num, batch, i, total_stats, exported_path, result,
                   exit_code, ledger0, worklist, startup, exported_ids,
                   uploaded_ids, pause_due, response, unlink_failed>>

\* process_batch, lines 288-292: exported_path.unlink(), which may fail.
CleanItem ==
    /\ pc = "cleanup"
    /\ \E deleted \in BOOLEAN :
          staging' = IF deleted THEN staging \ {exported_path} ELSE staging
    /\ NextItem
    /\ UNCHANGED <<photos, local, ledger, txn, args, imported_uuids, to_import,
                   batch_num, batch, stats, total_stats, exit_code, ledger0,
                   worklist, committed, startup, exported_ids, uploaded_ids,
                   pause_due, response, writes, unlink_failed, upload_failures>>

\* EndBatch that sweeps the staging directory in a dry run too.
EndBatch_sweep_unconditional ==
    /\ pc = "batch_end"
    /\ total_stats' = add_stats(total_stats, stats)
    /\ \E kept \in SUBSET staging : staging' = kept /\ unlink_failed' = kept
    /\ pc' = "loop"
    /\ batch' = <<>>
    /\ i' = 0
    /\ stats' = ZeroStats
    /\ UNCHANGED <<photos, local, ledger, txn, args, imported_uuids, to_import,
                   batch_num, exported_path, result, exit_code, ledger0,
                   worklist, committed, startup, exported_ids, uploaded_ids,
                   pause_due, response, writes, upload_failures>>

\* EndBatch whose sweep looks only for the files of the batch's own items.
EndBatch_sweeps_batch_files ==
    /\ pc = "batch_end"
    /\ total_stats' = add_stats(total_stats, stats)
    /\ IF args.dry_run
       THEN staging' = staging /\ unlink_failed' = {}
       ELSE \E kept \in SUBSET {f \in staging : f.src \in uuids_of(batch)} :
               /\ staging' = kept \cup {f \in staging : f.src \notin uuids_of(batch)}
               /\ unlink_failed' = kept
    /\ pc' = "loop"
    /\ batch' = <<>>
    /\ i' = 0
    /\ stats' = ZeroStats
    /\ UNCHANGED <<photos, local, ledger, txn, args, imported_uuids, to_import,
                   batch_num, exported_path, result, exit_code, ledger0,
                   worklist, committed, startup, exported_ids, uploaded_ids,
                   pause_due, response, writes, upload_failures>>

\* main, lines 460-472: the totals, and the sweep of the staging directory,
\* each unlink of which may fail silently.
EndBatch ==
    /\ pc = "batch_end"
    /\ total_stats' = add_stats(total_stats, stats)
    /\ IF args.dry_run
       THEN staging' = staging /\ unlink_failed' = {}
       ELSE \E kept \in SUBSET staging : staging' = kept /\ unlink_failed' = kept
    /\ pc' = "loop"
    /\ batch' = <<>>
    /\ i' = 0
    /\ stats' = ZeroStats
    /\ UNCHANGED <<photos, local, ledger, txn, args, imported_uuids, to_import,
                   batch_num, exported_path, result, exit_code, ledger0,
                   worklist, committed, startup, exported_ids, uploaded_ids,
                   pause_due, response, writes, upload_failures>>

\* main, lines 474-487: the summary; the process ends.
Finish ==
    /\ pc = "summary"
    /\ exit_code' = "0"
    /\ Forget
    /\ UNCHANGED <<photos, local, ledger, staging, committed, writes>>

\* The process is terminated from outside, anywhere in a run.
Terminate ==
    /\ pc \notin {"idle"}
    /\ exit_code' = "killed"
    /\ Forget
    /\ UNCHANGED <<photos, local, ledger, staging, committed, writes>>

Next ==
    \/ Main_Start
    \/ BatchLoop
    \/ DryRunItem
    \/ ExportItem
    \/ UploadItem
    \/ RecordItem
    \/ CleanItem
    \/ EndBatch
    \/ Finish
    \/ Terminate

Spec == Init /\ [][Next]_vars

(***************************************************************************)
(* Planning and batching on their own: get_photos_to_import and the        *)
(* build_batch / remove loop of main applied to any catalog, any           *)
(* availability, any set of imported uuids and any limits.                 *)
(***************************************************************************)
\* A photo with two extensions, a video of unknown size, a nameless photo of
\* unknown size, a large video without extension, a junk file.
PlanKinds(u) ==
    { [original_filename |-> F_thm_jpg, original_filesize |-> 4, isphoto |-> TRUE],
      [original_filename |-> F_MOV, original_filesize |-> 0, isphoto |-> FALSE],
      [original_filename |-> NoName, original_filesize |-> 0, isphoto |-> TRUE],
      [original_filename |-> F_noext, original_filesize |-> 2048, isphoto |-> FALSE],
      [original_filename |-> junk_name(u), original_filesize |-> 1, isphoto |-> TRUE] }

PlanLimits ==
    { [max_bytes |-> 8, max_items |-> 0], [max_bytes |-> 5120, max_items |-> 0],
      [max_bytes |-> 5120, max_items |-> 2] }

PlanArgSets ==
    { [dry_run |-> FALSE, local_only |-> l, max_bytes |-> b.max_bytes,
       max_items |-> b.max_items, max_batches |-> 0] :
          l \in BOOLEAN, b \in PlanLimits }

PlanInit ==
    /\ \E kinds \in {f \in [PlanUUIDs -> UNION {PlanKinds(u) : u \in PlanUUIDs}] :
                          \A u \in PlanUUIDs : f[u] \in PlanKinds(u)} :
          photos = [u \in PlanUUIDs |->
                       PhotoInfo(u, kinds[u].original_filename,
                                 kinds[u].original_filesize, kinds[u].isphoto,
                                 1, TRUE, TRUE)]
    /\ local \in [PlanUUIDs -> BOOLEAN]
    /\ imported_uuids \in SUBSET PlanUUIDs
    /\ args \in PlanArgSets
    /\ pc = "plan_input"
    /\ to_import = <<>>
    /\ worklist = <<>>
    /\ batch = <<>>
    /\ batch_num = 0
    /\ i = 0
    /\ stats = ZeroStats
    /\ total_stats = ZeroStats
    /\ exported_path = NoPath
    /\ result = NoResult
    /\ ledger0 = {}
    /\ ledger = {}
    /\ txn = {}
    /\ staging = {}
    /\ exit_code = "none"
    /\ committed = {}
    /\ startup = "none"
    /\ exported_ids = {}
    /\ uploaded_ids = {}
    /\ pause_due = FALSE
    /\ response = NoResponse
    /\ writes = [u \in PlanUUIDs |-> 0]
    /\ unlink_failed = {}
    /\ upload_failures = 0

\* to_import = get_photos_to_import(photosdb, imported_uuids, local_only)
PlanApply ==
    /\ pc = "plan_input"
    /\ to_import' = get_photos_to_import(photos, local, imported_uuids, args.local_only)
    /\ worklist' = to_import'
    /\ pc' = "planned"
    /\ UNCHANGED <<photos, local, ledger, txn, staging, args, imported_uuids,
                   batch_num, batch, i, stats, total_stats, exported_path,
                   result, exit_code, ledger0, committed, startup,
                   exported_ids, uploaded_ids, pause_due, response, writes,
                   unlink_failed, upload_failures>>

\* batch = build_batch(to_import, ...); to_import = to_import minus the batch
BatchApply ==
    /\ pc = "planned"
    /\ to_import # <<>>
    /\ batch' = build_batch(to_import, args.max_bytes, args.max_items)
    /\ to_import' = remove_batch(to_import, batch')
    /\ batch_num' = batch_num + 1
    /\ UNCHANGED <<photos, local, ledger, txn, staging, pc, args, imported_uuids,
                   i, stats, total_stats, exported_path, result, exit_code,
                   ledger0, worklist, committed, startup, exported_ids,
                   uploaded_ids, pause_due, response, writes, unlink_failed,
                   upload_failures>>

PlanNext ==
    \/ PlanApply
    \/ BatchApply

SpecPlan == PlanInit /\ [][PlanNext]_vars

(***************************************************************************)
(* upload_asset on its own: any answer of the destination, with the file   *)
(* to upload present or gone.                                              *)
(***************************************************************************)
Statuses == {200, 201, 202, 204, 301, 400, 401, 404, 409, 413, 500, 502, 503}

UploadInputs ==
    { Response("http", st, b, d) :
          st \in Statuses, b \in {"object", "not_json", "not_object"},
          d \in {"true", "false", "absent"} }
    \cup { Response("request_error", 0, "object", "absent"),
           Response("os_error", 0, "object", "absent") }

UploadFile == [src |-> 1, st_size |-> 4]

UploadInit ==
    /\ response \in UploadInputs
    /\ staging \in {{}, {UploadFile}}
    /\ exported_path = UploadFile
    /\ pc = "upload_input"
    /\ result = NoResult
    /\ photos = <<>>
    /\ local = <<>>
    /\ imported_uuids = {}
    /\ args = NoArgs
    /\ to_import = <<>>
    /\ worklist = <<>>
    /\ batch = <<>>
    /\ batch_num = 0
    /\ i = 0
    /\ stats = ZeroStats
    /\ total_stats = ZeroStats
    /\ ledger0 = {}
    /\ ledger = {}
    /\ txn = {}
    /\ exit_code = "none"
    /\ committed = {}
    /\ startup = "none"
    /\ exported_ids = {}
    /\ uploaded_ids = {}
    /\ pause_due = FALSE
    /\ writes = <<>>
    /\ unlink_failed = {}
    /\ upload_failures = 0

\* result = immich.upload_asset(file_path=exported_path, ...)
UploadApply ==
    /\ pc = "upload_input"
    /\ result' = upload_asset(exported_path \in staging, response)
    /\ pc' = "upload_done"
    /\ UNCHANGED <<photos, local, ledger, txn, staging, args, imported_uuids,
                   to_import, batch_num, batch, i, stats, total_stats,
                   exported_path, exit_code, ledger0, worklist, committed,
                   startup, exported_ids, uploaded_ids, pause_due, response,
                   writes, unlink_failed, upload_failures>>

UploadNext == UploadApply

SpecUpload == UploadInit /\ [][UploadNext]_vars

(***************************************************************************)
(* The ledger on its own: any sequence of mark_imported calls and reads,   *)
(* each uuid recorded up to MaxWrites times.                               *)
(***************************************************************************)
MaxWrites == 2

LedgerInit ==
    /\ pc = "tracker"
    /\ ledger = {}
    /\ txn = {}
    /\ committed = {}
    /\ imported_uuids = {}
    /\ writes = [u \in PlanUUIDs |-> 0]
    /\ photos = <<>>
    /\ local = <<>>
    /\ staging = {}
    /\ args = NoArgs
    /\ to_import = <<>>
    /\ worklist = <<>>
    /\ batch = <<>>
    /\ batch_num = 0
    /\ i = 0
    /\ stats = ZeroStats
    /\ total_stats = ZeroStats
    /\ exported_path = NoPath
    /\ result = NoResult
    /\ ledger0 = {}
    /\ exit_code = "none"
    /\ startup = "none"
    /\ exported_ids = {}
    /\ uploaded_ids = {}
    /\ pause_due = FALSE
    /\ response = NoResponse
    /\ unlink_failed = {}
    /\ upload_failures = 0

\* tracker.mark_imported(icloud_uuid, immich_id, filename, file_size, media_type)
MarkImported ==
    /\ pc = "tracker"
    /\ \E u \in PlanUUIDs, immich_id \in {None, "asset-id"}, file_size \in {4, 90} :
          /\ writes[u] < MaxWrites
          /\ LET db == mark_imported(ledger, txn, u, immich_id, F_jpg, file_size,
                                     "photo")
             IN  /\ ledger' = db.ledger
                 /\ txn' = db.txn
          /\ committed' = insert_or_replace(committed,
                 [icloud_uuid |-> u, immich_id |-> immich_id, filename |-> F_jpg,
                  file_size |-> file_size, media_type |-> "photo"])
          /\ writes' = [writes EXCEPT ![u] = @ + 1]
    /\ UNCHANGED <<photos, local, staging, pc, args, imported_uuids, to_import,
                   batch_num, batch, i, stats, total_stats, exported_path,
                   result, exit_code, ledger0, worklist, startup, exported_ids,
                   uploaded_ids, pause_due, response, unlink_failed,
                   upload_failures>>

\* tracker.get_imported_uuids()
ReadImported ==
    /\ pc = "tracker"
    /\ imported_uuids' = get_imported_uuids(ledger, txn)
    /\ UNCHANGED <<photos, local, ledger, txn, staging, pc, args, to_import,
                   batch_num, batch, i, stats, total_stats, exported_path,
                   result, exit_code, ledger0, worklist, committed, startup,
                   exported_ids, uploaded_ids, pause_due, response, writes,
                   unlink_failed, upload_failures>>

LedgerNext ==
    \/ MarkImported
    \/ ReadImported

SpecLedger == LedgerInit /\ [][LedgerNext]_vars

(***************************************************************************)
(* One run from its batch loop to its summary, never terminated from       *)
(* outside, every call of which returns: export_photo (the download has a  *)
(* timeout), upload_asset, mark_imported, unlink.                          *)
(***************************************************************************)
RunPhotos == 2

RunUUIDs == 1..RunPhotos

\* --batch-size 0, a small and a large one, with and without --max-items and
\* --max-batches.
RunLimits ==
    { [max_bytes |-> 0,    max_items |-> 0, max_batches |-> 0],
      [max_bytes |-> 0,    max_items |-> 0, max_batches |-> 1],
      [max_bytes |-> 8,    max_items |-> 0, max_batches |-> 0],
      [max_bytes |-> 5120, max_items |-> 1, max_batches |-> 2],
      [max_bytes |-> 5120, max_items |-> 0, max_batches |-> 0] }

RunArgSets ==
    { [dry_run |-> d, local_only |-> FALSE, max_bytes |-> b.max_bytes,
       max_items |-> b.max_items, max_batches |-> b.max_batches] :
          d \in BOOLEAN, b \in RunLimits }

\* The items of a run's catalog: a local photo, a cloud-only item of 2 GB.
RunKinds(u) == {k \in Kinds(u) : k.original_filename \in {F_jpg, NoName}}

\* main at line 429: the catalog is open, the ledger read, the worklist planned.
RunInit ==
    /\ \E kinds \in {f \in [RunUUIDs -> UNION {RunKinds(u) : u \in RunUUIDs}] :
                          \A u \in RunUUIDs : f[u] \in RunKinds(u)} :
          /\ photos = [u \in RunUUIDs |-> make_photo(u, kinds[u])]
          /\ local = [u \in RunUUIDs |-> kinds[u].local]
    /\ args \in RunArgSets
    /\ ledger = {}
    /\ txn = {}
    /\ staging = {}
    /\ committed = {}
    /\ writes = [u \in RunUUIDs |-> 0]
    /\ imported_uuids = get_imported_uuids(ledger, txn)
    /\ to_import = get_photos_to_import(photos, local, imported_uuids,
                                        args.local_only)
    /\ worklist = to_import
    /\ ledger0 = {}
    /\ pc = "loop"
    /\ batch_num = 0
    /\ batch = <<>>
    /\ i = 0
    /\ stats = ZeroStats
    /\ total_stats = ZeroStats
    /\ exported_path = NoPath
    /\ result = NoResult
    /\ exit_code = "none"
    /\ startup = "ok"
    /\ exported_ids = {}
    /\ uploaded_ids = {}
    /\ pause_due = FALSE
    /\ response = NoResponse
    /\ unlink_failed = {}
    /\ upload_failures = 0

RunNext ==
    \/ BatchLoop
    \/ DryRunItem
    \/ ExportItem
    \/ UploadItem
    \/ RecordItem
    \/ CleanItem
    \/ EndBatch
    \/ Finish

SpecRun == RunInit /\ [][RunNext]_vars /\ WF_vars(RunNext)

(***************************************************************************)
(* Properties of planning and batching, under SpecPlan.                    *)
(***************************************************************************)
positions(list) == 1..Len(list)

RECURSIVE declared_total(_)
declared_total(list) ==
    IF list = <<>> THEN 0
    ELSE batch_file_size(Head(list)) + declared_total(Tail(list))

\* The junk names, written out.
JunkNames == {F_THM, F_Scr, F_lrf}

\* C1: the worklist planning returns holds no candidate whose identifier is in
\* the set of imported identifiers it was given.
C1_PlanExcludesImported ==
    pc = "planned" => uuids_of(worklist) \cap imported_uuids = {}

C1_Witness ==
    /\ pc = "planned"
    /\ worklist # <<>>
    /\ \E k \in positions(photos) :
          /\ photos[k].uuid \in imported_uuids
          /\ local[photos[k].uuid]
          /\ photos[k].original_filename \notin JunkNames

\* C6: a batch holds at most max_items items when max_items > 0, and its
\* declared (or estimated) sizes add up to at most max_bytes, unless it is the
\* first item of the worklist alone and that item exceeds max_bytes by itself.
C6_BatchWithinLimits ==
    [][ (pc = "planned" /\ batch_num' = batch_num + 1) =>
           /\ (args.max_items > 0 => Len(batch') <= args.max_items)
           /\ \/ declared_total(batch') <= args.max_bytes
              \/ /\ Len(batch') = 1
                 /\ batch'[1] = to_import[1]
                 /\ batch_file_size(batch'[1]) > args.max_bytes ]_vars

C6_Witness ==
    /\ pc = "planned"
    /\ Len(batch) = 1
    /\ batch_file_size(batch[1]) > args.max_bytes
    /\ to_import # <<>>

\* C7: in the worklist every locally available candidate comes before every
\* remote-only candidate, whatever the order of the catalog.
C7_LocalBeforeRemote ==
    pc = "planned" =>
        \A a, b \in positions(worklist) :
            (local[worklist[a].uuid] /\ ~local[worklist[b].uuid]) => a < b

C7_Witness ==
    /\ pc = "planned"
    /\ \E a, b \in positions(photos) :
          /\ a < b
          /\ ~local[photos[a].uuid]
          /\ local[photos[b].uuid]
          /\ {photos[a].uuid, photos[b].uuid} \subseteq uuids_of(worklist)

(***************************************************************************)
(* Properties of the pipeline, under Spec.                                 *)
(***************************************************************************)
keys(rows) == {r.icloud_uuid : r \in rows}

\* The steps of process_batch, told by where main is before and after.
ExportStep == pc = "item" /\ ~args.dry_run /\ pc' \in {"upload", "item", "batch_end"}
ExportFailedStep == pc = "item" /\ ~args.dry_run /\ pc' \in {"item", "batch_end"}
UploadStep == pc = "upload" /\ pc' = "uploaded"
RecordStep == pc = "uploaded" /\ pc' = "cleanup"

\* What planning returns from the state on disk, with the run's own options.
replanned == get_photos_to_import(photos, local, get_imported_uuids(ledger, {}),
                                  args.local_only)

\* C2: a candidate that has a ledger record when a run starts, or whose
\* mark_imported call returned in this or an earlier run, is not exported and
\* not uploaded again.
C2_NoReattempt ==
    [][ (ExportStep \/ UploadStep) =>
           /\ batch[i].uuid \notin ledger0
           /\ batch[i].uuid \notin keys(committed) ]_vars

C2_Witness ==
    /\ pc = "upload"
    /\ ledger0 # {}
    /\ exported_path.src = batch[i].uuid

\* C3: the ledger changes only in the step that follows an upload of the
\* current item that returned success, and only by a row for that item; a
\* dry-run skip, a failed export and a failed upload write nothing.
C3_RecordOnlyAfterSuccess ==
    [][ (ledger' # ledger \/ txn' # txn \/ committed' # committed) =>
           /\ pc = "uploaded"
           /\ result.success
           /\ \A r \in (ledger' \cup txn') \ (ledger \cup txn) :
                 r.icloud_uuid = batch[i].uuid
           /\ keys(ledger') = keys(ledger) \cup {batch[i].uuid} ]_vars

C3_Witness ==
    /\ pc = "cleanup"
    /\ result.success
    /\ batch[i].uuid \in keys(ledger)
    /\ stats.failed > 0

\* C4: when the export of item X fails, that is export_photo returns no file
\* or leaves no file of X in the staging directory, no ledger row is written
\* for X, failed goes up by exactly 1 and no other counter changes, and
\* planning from the state left on disk still returns X.
C4_ExportFailure ==
    [][ (ExportStep /\ (ExportFailedStep \/ StagedFile(batch[i]) \notin staging')) =>
           /\ ledger' = ledger /\ txn' = txn
           /\ batch[i].uuid \notin keys(ledger')
           /\ stats' = [stats EXCEPT !.failed = @ + 1]
           /\ total_stats' = total_stats
           /\ pc' # "upload"
           /\ batch[i].uuid \in uuids_of(
                 get_photos_to_import(photos', local',
                     get_imported_uuids(ledger', {}), args.local_only)) ]_vars

\* C5: after an upload that returned success the ledger holds a row for the
\* item; a duplicate adds 1 to duplicates and leaves uploaded alone, a fresh
\* upload adds 1 to uploaded and leaves duplicates alone.
C5_DuplicateCounting ==
    [][ (RecordStep /\ result.success) =>
           /\ \E r \in ledger' :
                 r.icloud_uuid = batch[i].uuid /\ r.immich_id = result.asset_id
           /\ IF result.duplicate
              THEN stats' = [stats EXCEPT !.duplicates = @ + 1]
              ELSE stats' = [stats EXCEPT !.uploaded = @ + 1] ]_vars

C5_Witness ==
    /\ pc = "cleanup"
    /\ result.success /\ result.duplicate
    /\ stats.duplicates = 1 /\ stats.uploaded = 0
    /\ batch[i].uuid \in keys(ledger)

\* C8: a candidate with a junk name (.thm, .scr, .lrf in any letter case) is in
\* no worklist and no batch, has no file in staging and no row in the ledger.
C8_JunkNeverMigrated ==
    \A k \in positions(photos) :
        photos[k].original_filename \in JunkNames =>
            /\ photos[k].uuid \notin uuids_of(worklist)
            /\ photos[k].uuid \notin uuids_of(to_import)
            /\ photos[k].uuid \notin uuids_of(batch)
            /\ photos[k].uuid \notin {f.src : f \in staging}
            /\ photos[k].uuid \notin keys(ledger \cup txn \cup committed)

C8_Witness ==
    /\ pc = "summary"
    /\ ~args.dry_run
    /\ ledger # {}
    /\ \E k \in positions(photos) : photos[k].original_filename \in JunkNames

\* C9 as amended: a dry run changes neither the ledger nor the staging
\* directory, exports and uploads nothing, and ends with skipped equal to the
\* number of worklist items in the batches it processed, all of the worklist
\* when no max-batches cap is set, and every other counter 0.
C9_DryRunFrame ==
    [][ args.dry_run =>
           /\ ledger' = ledger /\ txn' = txn /\ committed' = committed
           /\ staging' = staging
           /\ pc' \notin {"upload", "uploaded", "cleanup"}
           /\ (pc' = "summary" =>
                 /\ total_stats' = [ZeroStats EXCEPT
                                       !.skipped = Len(worklist) - Len(to_import')]
                 /\ (args.max_batches = 0 => to_import' = <<>>)) ]_vars

C9_Witness ==
    /\ pc = "summary"
    /\ args.dry_run
    /\ total_stats.skipped = Len(worklist)
    /\ Len(worklist) > 1
    /\ batch_num > 1
    /\ staging # {}

\* C9 as stated: the same, with skipped equal to the size of the worklist.
C9_DryRunSkipsAll ==
    [][ args.dry_run =>
           /\ ledger' = ledger /\ txn' = txn /\ committed' = committed
           /\ staging' = staging
           /\ pc' \notin {"upload", "uploaded", "cleanup"}
           /\ (pc' = "summary" =>
                 total_stats' = [ZeroStats EXCEPT !.skipped = Len(worklist)]) ]_vars

\* C10: wherever a run is terminated, every row whose mark_imported call
\* returned is on disk and is in the uuids the next run reads, and every
\* worklist item without a committed row is returned again by planning from
\* the state on disk.
C10_DurableAndRetried ==
    /\ committed \subseteq ledger
    /\ (pc # "idle" => ledger0 \subseteq imported_uuids)
    /\ \A k \in positions(worklist) :
          worklist[k].uuid \notin keys(committed) =>
              worklist[k].uuid \in uuids_of(replanned)

C10_Witness ==
    /\ pc = "idle"
    /\ exit_code = "killed"
    /\ committed # {}
    /\ staging # {}
    /\ replanned # <<>>

\* C11: when the ping fails or the catalog cannot be opened, the run ends with
\* exit status 1 before any batch: it stays out of the batch loop and leaves
\* the ledger and the staging directory as they were.
C11_FatalStartup ==
    [][ (pc = "idle" /\ startup' \in StartupOutcomes \ {"ok"}) =>
           /\ exit_code' = "1"
           /\ pc' = "idle"
           /\ to_import' = <<>> /\ batch' = <<>>
           /\ ledger' = ledger /\ txn' = txn /\ committed' = committed
           /\ staging' = staging ]_vars

C11_Witness ==
    /\ pc = "idle"
    /\ startup = "ping_request_error"
    /\ exit_code = "1"
    /\ staging # {}
    /\ replanned # <<>>

\* The batch goes on with its next item, or ends when this was its last.
Continues ==
    /\ batch' = batch /\ to_import' = to_import
    /\ IF i < Len(batch) THEN pc' = "item" /\ i' = i + 1
       ELSE pc' = "batch_end" /\ i' = i

CleanStep == pc = "cleanup" /\ pc' # "idle"

\* C12: a failed export, a failed upload and a failed deletion each leave the
\* batch going with its next item; an export or upload failure adds exactly 1
\* to failed; and a live run reaches its summary only when every item of the
\* batches up to the max-batch cap has ended as uploaded, duplicate or failed.
C12_ItemErrorsDoNotAbort ==
    [][ /\ ExportFailedStep =>
              (stats' = [stats EXCEPT !.failed = @ + 1] /\ Continues)
        /\ (RecordStep /\ ~result.success) =>
              /\ stats' = [stats EXCEPT !.failed = @ + 1]
              /\ batch' = batch /\ to_import' = to_import /\ i' = i
        /\ CleanStep => Continues
        /\ (pc' = "summary" /\ ~args.dry_run) =>
              /\ total_stats'.uploaded + total_stats'.duplicates
                    + total_stats'.failed = Len(worklist) - Len(to_import')
              /\ (to_import' # <<>> =>
                    (args.max_batches > 0 /\ batch_num' > args.max_batches)) ]_vars

C12_Witness ==
    /\ pc = "summary"
    /\ ~args.dry_run
    /\ total_stats.failed = 1
    /\ total_stats.uploaded = 1
    /\ Len(worklist) = 2
    /\ staging # {}

\* C13: within a run export_photo is called at most once for a candidate and
\* upload_asset at most once, whatever the outcome of the earlier call.
C13_AtMostOnce ==
    [][ /\ ExportStep => batch[i].uuid \notin exported_ids
        /\ UploadStep => batch[i].uuid \notin uploaded_ids ]_vars

C13_Witness ==
    /\ pc = "summary"
    /\ total_stats.failed = 2
    /\ Cardinality(exported_ids) = 2
    /\ Cardinality(uploaded_ids) = 1

\* C14: in a live run every file produced for an item is deleted before the
\* next item's export begins: the staging directory is empty whenever
\* export_photo is called.
C14_StagingEmptyAtExport ==
    [][ ExportStep =>
           /\ \A f \in staging : f.src \notin exported_ids
           /\ staging = {} ]_vars

\* C15: in a live run a slow-path export is never started while the pause
\* that a successful slow-path export calls for is still due, be it later in
\* the same batch or at the head of the next one.
C15_PauseBeforeNextFetch ==
    [][ (ExportStep /\ is_cloud(batch[i], local)) => ~pause_due ]_vars

\* C16: a live item goes through export, upload, record and delete in that
\* order, each once and for the same item; the next item is taken only after
\* the delete, or after a failed export; and an export, an upload or a ledger
\* write happens nowhere else.
C16_StrictlySequential ==
    [][ (~args.dry_run /\ pc' # "idle") =>
           /\ pc = "item" =>
                 /\ \/ (pc' = "upload" /\ i' = i /\ batch' = batch
                            /\ to_import' = to_import)
                    \/ (ExportFailedStep /\ Continues)
                 /\ ledger' = ledger
           /\ pc = "upload" =>
                 /\ pc' = "uploaded" /\ i' = i /\ batch' = batch
                 /\ ledger' = ledger /\ staging' = staging
           /\ pc = "uploaded" =>
                 /\ pc' = "cleanup" /\ i' = i /\ batch' = batch
                 /\ staging' = staging
           /\ pc = "cleanup" =>
                 /\ Continues
                 /\ ledger' = ledger /\ staging' \subseteq staging
           /\ exported_ids' # exported_ids =>
                 (pc = "item" /\ exported_ids' = exported_ids \cup {batch[i].uuid})
           /\ uploaded_ids' # uploaded_ids =>
                 /\ pc = "upload" /\ batch[i].uuid \in exported_ids
                 /\ uploaded_ids' = uploaded_ids \cup {batch[i].uuid}
           /\ ledger' # ledger =>
                 (pc = "uploaded" /\ batch[i].uuid \in uploaded_ids) ]_vars

C16_Witness ==
    /\ pc = "cleanup"
    /\ i = 2
    /\ result.success
    /\ uploaded_ids = {batch[1].uuid, batch[2].uuid}
    /\ Cardinality(ledger) = 2

(***************************************************************************)
(* Properties of upload_asset, under SpecUpload.                           *)
(***************************************************************************)
IsFailure(res) == ~res.success /\ res.error # None /\ res.asset_id = None

HasObjectBody == response.kind = "http" /\ response.body = "object"

\* C17 as amended: upload_asset always returns an outcome; a transport error,
\* a missing file, a status other than 200 and 201, and a 200 or 201 whose
\* body is not a JSON object give a failure with an error detail and no id;
\* 201 with a JSON object gives success with the body's duplicate flag, false
\* when it has none; 200 with a JSON object gives success with duplicate true.
C17_UploadOutcomes ==
    pc = "upload_done" =>
        /\ result.success \in BOOLEAN /\ result.duplicate \in BOOLEAN
        /\ (UploadFile \notin staging \/ response.kind # "http"
               \/ response.status \notin {200, 201} \/ ~HasObjectBody)
              => IsFailure(result)
        /\ (UploadFile \in staging /\ HasObjectBody /\ response.status = 201)
              => /\ result.success /\ result.error = None
                 /\ result.duplicate = (response.duplicate = "true")
        /\ (UploadFile \in staging /\ HasObjectBody /\ response.status = 200)
              => (result.success /\ result.duplicate /\ result.error = None)

C17_Witness ==
    /\ pc = "upload_done"
    /\ UploadFile \in staging
    /\ response.status = 201 /\ response.body = "object"
    /\ response.duplicate = "true"
    /\ result.success /\ result.duplicate

\* C17 as stated: every 201 gives success with the response's duplicate flag
\* and every 200 gives success with duplicate true.
C17_StatusDecidesOutcome ==
    pc = "upload_done" =>
        /\ (UploadFile \notin staging \/ response.kind # "http"
               \/ response.status \notin {200, 201})
              => IsFailure(result)
        /\ (UploadFile \in staging /\ response.kind = "http"
               /\ response.status = 201)
              => (result.success /\ result.duplicate = (response.duplicate = "true"))
        /\ (UploadFile \in staging /\ response.kind = "http"
               /\ response.status = 200)
              => (result.success /\ result.duplicate)

(***************************************************************************)
(* More properties of the pipeline, under Spec.                            *)
(***************************************************************************)
\* C18: every upload_asset call of the pipeline carries a created-at and a
\* modified-at text: the candidate's own time when it has one, the exported
\* file's birth time and modification time when it has not.
C18_TimestampsNeverNull ==
    [][ UploadStep =>
           LET call == upload_call(batch[i], exported_path)
           IN  /\ call.file_created_at # None
               /\ call.file_modified_at # None
               /\ call.file_created_at =
                     (IF batch[i].date THEN "iso(photo.date)"
                      ELSE "iso(file_stat.st_birthtime)")
               /\ call.file_modified_at =
                     (IF batch[i].date_modified THEN "iso(photo.date_modified)"
                      ELSE "iso(file_stat.st_mtime)")
               /\ call.device_asset_id = batch[i].uuid ]_vars

C18_Witness ==
    /\ pc = "uploaded"
    /\ ~batch[i].date /\ ~batch[i].date_modified
    /\ result.success

InBatch == {"item", "upload", "uploaded", "cleanup", "batch_end"}

\* C19: with max_batches = N > 0 no more than N batches are processed, and
\* the items then left in the worklist are not exported, uploaded or recorded;
\* the loop ends only on an empty worklist or, with N > 0, after N batches, so
\* with max_batches = 0 only on an empty worklist.
C19_BatchLoopBounds ==
    [][ /\ (pc' \in InBatch /\ args'.max_batches > 0) =>
              batch_num' <= args'.max_batches
        /\ (pc = "loop" /\ pc' = "summary") =>
              \/ to_import = <<>>
              \/ (args.max_batches > 0 /\ batch_num = args.max_batches)
        /\ (pc = "loop" /\ pc' = "item") =>
              (batch_num' = batch_num + 1 /\ batch' # <<>>)
        /\ (ExportStep \/ UploadStep \/ RecordStep) =>
              batch[i].uuid \notin uuids_of(to_import)
        /\ pc' # "idle" =>
              uuids_of(to_import') \cap
                  (exported_ids' \cup uploaded_ids' \cup keys(ledger')) = {} ]_vars

C19_Witness ==
    /\ pc = "summary"
    /\ ~args.dry_run
    /\ args.max_batches = 1
    /\ batch_num = 2
    /\ to_import # <<>>
    /\ exported_ids # {}

(***************************************************************************)
(* Properties of the ledger, under SpecLedger.                             *)
(***************************************************************************)
rows_of(rows, u) == {r \in rows : r.icloud_uuid = u}

\* C20: no call removes a uuid from the ledger; the ledger holds exactly one
\* row for each uuid it knows; and a call for a uuid, new or already recorded,
\* leaves the row it wrote as that uuid's only row and the other rows alone.
C20_LedgerNeverShrinks ==
    [][ /\ keys(ledger) \subseteq keys(ledger')
        /\ \A u \in keys(ledger') : Cardinality(rows_of(ledger', u)) = 1
        /\ \A u \in PlanUUIDs :
              IF writes'[u] # writes[u]
              THEN /\ rows_of(ledger', u) = rows_of(committed', u)
                   /\ u \in get_imported_uuids(ledger', {})
              ELSE rows_of(ledger', u) = rows_of(ledger, u) ]_vars

C20_Witness ==
    /\ pc = "tracker"
    /\ \E u \in PlanUUIDs :
          /\ writes[u] = 2
          /\ Cardinality(rows_of(ledger, u)) = 1
          /\ u \in imported_uuids
    /\ Cardinality(ledger) > 1

(***************************************************************************)
(* Properties of the staging directory, under Spec.                        *)
(***************************************************************************)
\* A live run has completed at least one batch and is between batches or at
\* its summary.
AfterLiveBatch ==
    pc \in {"loop", "summary"} /\ ~args.dry_run /\ total_stats # ZeroStats

\* C21 as amended: after every live batch the staging directory holds only
\* files the sweep tried to delete and could not; every other file, whichever
\* item or run left it, is gone.
C21_SweepLeavesOnlyUndeletable ==
    AfterLiveBatch => staging = unlink_failed

C21_Witness ==
    /\ pc = "summary"
    /\ ~args.dry_run
    /\ batch_num = 2
    /\ total_stats.failed = 1
    /\ Cardinality(unlink_failed) = 1
    /\ \E f \in staging : f.src \in exported_ids \ uploaded_ids

\* C21 as stated: after every live batch the staging directory is empty.
C21_StagingCleanAfterBatch ==
    AfterLiveBatch => staging = {}

(***************************************************************************)
(* More properties of planning and batching, under SpecPlan.               *)
(***************************************************************************)
\* The size the byte budget is to count for a candidate: its declared size,
\* or 5 MB for a photo and 100 MB for a video when it declares none.
budget_size(p) ==
    IF p.original_filesize > 0 THEN p.original_filesize
    ELSE IF p.isphoto THEN 5 ELSE 100

RECURSIVE budget_total(_)
budget_total(list) ==
    IF list = <<>> THEN 0 ELSE budget_size(Head(list)) + budget_total(Tail(list))

BatchStep == pc = "planned" /\ batch_num' = batch_num + 1

\* C22: build_batch counts a candidate of unknown size as 5 MB (photo) or
\* 100 MB (video): with these sizes a batch of several items stays within
\* max_bytes and the item after the batch, unless max_items closed it, does
\* not fit; so a worklist of a local 2 GB item and a remote video of unknown
\* size makes one batch of both under max_bytes = 5 GB and max_items = 0.
C22_EstimateForUnknownSize ==
    [][ BatchStep =>
           LET n == Len(batch')
           IN  /\ n >= 1
               /\ (n > 1 => budget_total(batch') <= args.max_bytes)
               /\ (n < Len(to_import) /\ (args.max_items = 0 \/ n < args.max_items))
                     => budget_total(batch') + budget_size(to_import[n + 1])
                           > args.max_bytes
               /\ ( /\ Len(to_import) = 2
                    /\ local[to_import[1].uuid]
                    /\ to_import[1].original_filesize = 2048
                    /\ ~local[to_import[2].uuid]
                    /\ to_import[2].original_filesize = 0
                    /\ ~to_import[2].isphoto
                    /\ args.max_bytes = 5120 /\ args.max_items = 0 )
                     => batch' = to_import ]_vars

\* The scenario: A local of 2 GB, B remote of unknown size, C migrated.
C22_Witness ==
    /\ pc = "planned"
    /\ batch_num = 1
    /\ args.max_bytes = 5120 /\ args.max_items = 0
    /\ Len(worklist) = 2
    /\ batch = worklist
    /\ local[batch[1].uuid] /\ batch[1].original_filesize = 2048
    /\ ~local[batch[2].uuid] /\ batch[2].original_filesize = 0
    /\ ~batch[2].isphoto
    /\ \E k \in positions(photos) :
          /\ photos[k].uuid \in imported_uuids
          /\ photos[k].original_filename \notin JunkNames
          /\ photos[k].uuid \notin uuids_of(worklist)

(***************************************************************************)
(* More properties of the pipeline, under Spec.                            *)
(***************************************************************************)
\* The uuids of the catalog whose file is on the local disk.
LocalUUIDs == {photos[k].uuid : k \in {j \in positions(photos) : local[photos[j].uuid]}}

\* C23: in a run with local_only the worklist, what is left of it and every
\* batch hold only candidates whose file is on the local disk, so the item at
\* hand never takes the slow path, and only such candidates are exported,
\* uploaded or given a ledger row in that run.
C23_LocalOnlyPlansNoRemote ==
    (pc # "idle" /\ args.local_only) =>
        /\ uuids_of(worklist) \subseteq LocalUUIDs
        /\ uuids_of(to_import) \subseteq LocalUUIDs
        /\ uuids_of(batch) \subseteq LocalUUIDs
        /\ (pc \in {"item", "upload", "uploaded", "cleanup"} =>
               ~is_cloud(batch[i], local))
        /\ exported_ids \subseteq LocalUUIDs
        /\ uploaded_ids \subseteq LocalUUIDs
        /\ keys(ledger \cup txn) \ ledger0 \subseteq LocalUUIDs

C23_Witness ==
    /\ pc = "summary"
    /\ args.local_only /\ ~args.dry_run
    /\ keys(ledger) # {}
    /\ \E k \in positions(photos) :
          /\ ~local[photos[k].uuid]
          /\ photos[k].original_filename \notin JunkNames
          /\ photos[k].uuid \notin keys(ledger)

\* C24: the file uploaded for a candidate is the file its own export wrote,
\* and the size recorded in the ledger for a candidate is that file's size: no
\* file another item left in the staging directory is returned by the export,
\* uploaded or recorded under this candidate's identifier.
C24_OwnFileOnly ==
    [][ /\ ExportStep => exported_path' \in {NoPath, StagedFile(batch[i])}
        /\ UploadStep =>
              upload_call(batch[i], exported_path).file_path = StagedFile(batch[i])
        /\ (RecordStep /\ result.success) =>
              \A r \in rows_of(ledger', batch[i].uuid) :
                  r.file_size = batch[i].st_size ]_vars

(***************************************************************************)
(* Properties of a run's counters, under SpecRun.                          *)
(***************************************************************************)
\* The counters of the run so far: the batches added up and the batch at hand.
running == add_stats(total_stats, stats)

\* The number of items of the run whose outcome has been counted.
counted ==
    (Len(worklist) - Len(to_import) - Len(batch))
        + (CASE pc \in {"item", "upload", "uploaded"} -> i - 1
             [] pc = "cleanup" -> i
             [] pc = "batch_end" -> Len(batch)
             [] OTHER -> 0)

\* 1 while an item is exported and the outcome of its upload is not counted yet.
in_flight == IF pc \in {"upload", "uploaded"} THEN 1 ELSE 0

\* The counters, one changed by `d` and the others left alone.
Bumped(st, field, d) == [st EXCEPT ![field] = @ + d]

\* C25 as amended: in a live run uploaded + duplicates + failed is the number
\* of items whose outcome has been counted, skipped is 0, and exported is
\* uploaded + duplicates + the upload failures, plus 1 while an exported item
\* waits for the outcome of its upload; in a dry run skipped is the number of
\* items counted and the rest is 0; a step of an item adds 1 to one counter
\* (and a successful export 1 to exported), and the totals change only at the
\* end of a batch, by the batch's counters.
C25_StatsAccounting ==
    [][ pc' # "idle" =>
          LET r == running'
              n == counted'
          IN  /\ IF args'.dry_run
                 THEN r = Bumped(ZeroStats, "skipped", n)
                 ELSE /\ r.skipped = 0
                      /\ r.uploaded + r.duplicates + r.failed = n
                      /\ r.exported = r.uploaded + r.duplicates
                                          + upload_failures' + in_flight'
              /\ pc = "item" =>
                    stats' \in { Bumped(stats, "skipped", 1),
                                 Bumped(stats, "failed", 1),
                                 Bumped(stats, "exported", 1) }
              /\ pc = "uploaded" =>
                    stats' \in { Bumped(stats, "uploaded", 1),
                                 Bumped(stats, "duplicates", 1),
                                 Bumped(stats, "failed", 1) }
              /\ pc \in {"upload", "cleanup"} => stats' = stats
              /\ pc = "batch_end" =>
                    /\ total_stats' = add_stats(total_stats, stats)
                    /\ stats' = ZeroStats
              /\ pc \notin {"batch_end", "idle"} => total_stats' = total_stats ]_vars

C25_Witness ==
    /\ pc = "summary"
    /\ ~args.dry_run
    /\ batch_num = 2
    /\ total_stats = [exported |-> 2, uploaded |-> 0, duplicates |-> 1,
                      failed |-> 1, skipped |-> 0]
    /\ upload_failures = 1

\* C25 as stated: at every point of a live run exported is uploaded +
\* duplicates + the upload failures.
C25_ExportedAtEveryPoint ==
    (pc # "idle" /\ ~args.dry_run) =>
        /\ running.skipped = 0
        /\ running.uploaded + running.duplicates + running.failed = counted
        /\ running.exported = running.uploaded + running.duplicates
                                  + upload_failures

(***************************************************************************)
(* Properties of the batch loop, under SpecPlan.                           *)
(***************************************************************************)
\* The items of `list` from position a to position b.
segment(list, a, b) == SubSeq(list, a, b)

\* C26: each batch is a non-empty prefix of the worklist that remains, what
\* remains after it is the rest in the same order, and so the batches taken
\* so far, in turn, and the remainder make up the worklist: the batch at hand
\* is the segment just before the remainder, and the remainder is the
\* worklist's tail.
C26_BatchesPartitionWorklist ==
    [][ /\ BatchStep =>
              LET n == Len(batch')
              IN  /\ n >= 1 /\ n <= Len(to_import)
                  /\ batch' = segment(to_import, 1, n)
                  /\ to_import' = segment(to_import, n + 1, Len(to_import))
        /\ pc' = "planned" =>
              LET w == Len(worklist')
                  r == Len(to_import')
                  n == Len(batch')
              IN  /\ to_import' = segment(worklist', w - r + 1, w)
                  /\ batch' = segment(worklist', w - r - n + 1, w - r)
                  /\ \A a, b \in positions(worklist') :
                        worklist'[a].uuid = worklist'[b].uuid => a = b ]_vars

C26_Witness ==
    /\ pc = "planned"
    /\ batch_num = 2
    /\ Len(worklist) = 3
    /\ Len(batch) = 1
    /\ to_import = <<>>
    /\ batch[1] = worklist[3]

(***************************************************************************)
(* Termination of the batch loop, under SpecRun.                           *)
(***************************************************************************)
\* C27: the batch loop ends, whatever the worklist and the limits: each turn
\* that takes a batch makes the worklist shorter, an item larger than
\* max_bytes going alone, and the loop leaves items behind only when the
\* max-batch cap stops it.
C27_BatchLoopTerminates ==
    /\ [][ /\ (pc = "loop" /\ pc' = "item") =>
                  /\ Len(to_import') < Len(to_import)
                  /\ batch' # <<>>
           /\ (pc = "loop" /\ pc' = "summary") =>
                  \/ to_import = <<>>
                  \/ (args.max_batches > 0 /\ batch_num' > args.max_batches) ]_vars
    /\ <>(pc = "summary")

C27_Witness ==
    /\ pc = "summary"
    /\ args.max_bytes = 0 /\ args.max_batches = 0
    /\ batch_num = 2
    /\ to_import = <<>>
    /\ \E k \in positions(worklist) : worklist[k].original_filesize = 2048

(***************************************************************************)
(* Completeness of a run without failures, under Spec.                     *)
(***************************************************************************)
\* C28: when a live run without max-batch cap reaches its summary with no
\* failed export and no failed upload, every candidate of its worklist has a
\* committed ledger row, each counted as uploaded or duplicate, and planning
\* again with the same options from the state on disk returns nothing.
C28_CompleteWhenNoFailure ==
    (pc = "summary" /\ ~args.dry_run /\ args.max_batches = 0
        /\ total_stats.failed = 0) =>
        /\ to_import = <<>>
        /\ uuids_of(worklist) \subseteq keys(ledger)
        /\ uuids_of(worklist) \subseteq keys(committed)
        /\ total_stats.uploaded + total_stats.duplicates = Len(worklist)
        /\ replanned = <<>>

C28_Witness ==
    /\ pc = "summary"
    /\ ~args.dry_run /\ args.max_batches = 0
    /\ total_stats.failed = 0
    /\ total_stats.uploaded = 1 /\ total_stats.duplicates = 1
    /\ Len(worklist) = 2
    /\ batch_num = 2
    /\ replanned = <<>>

====
